---- MODULE Spec2Model ----
(***************************************************************************)
(* A model of the two backfill pipelines of claude-code-metrics:           *)
(*   scripts/backfill-loki.py     extract_tool_events, push_to_loki,       *)
(*                                _post_json                               *)
(*   scripts/backfill-metrics.py  parse_file, merge_into_sessions,         *)
(*                                format_openmetrics                       *)
(* Every function is modelled as its own state machine (one specification  *)
(* per function); the variable mode says which one is running.             *)
(*                                                                         *)
(* Conventions.                                                            *)
(*   - A Python value that may be None is a sequence of length <= 1:       *)
(*     None is << >> and a value v is << v >>.                             *)
(*   - A dict is a function whose DOMAIN is the set of its keys.           *)
(*   - An ISO-8601 instant is [sec, ms]: whole seconds since the epoch and *)
(*     milliseconds.  The float that datetime.timestamp() returns for it   *)
(*     is [sec, frac]: the double nearest to sec + ms/1000, which for      *)
(*     2^30 <= sec < 2^31 (the years 2004..2038) is a multiple of 2^-22 s; *)
(*     frac counts those units.  The epoch itself is the float 0.0.        *)
(***************************************************************************)
EXTENDS Integers, Sequences, FiniteSets, TLC

VARIABLES
    mode,             \* which function is running
    ex_file,          \* extract_tool_events: the lines read so far, in file order
    ex_pending,       \* extract_tool_events: pending_tools
    ex_events,        \* extract_tool_events: events
    ex_pc,            \* extract_tool_events: "reading" | "returned" | "failed"
    pf_file,          \* parse_file: the lines read so far, in file order
    pf_locals,        \* parse_file: its local variables, by name
    pf_result,        \* parse_file: what it returned (None before it returns)
    pf_pc,            \* parse_file: "reading" | "returned" | "failed"
    mg_parsed,        \* merge_into_sessions: the fragments folded so far
    mg_sessions,      \* merge_into_sessions: sessions (a dict by session id)
    mg_order,         \* merge_into_sessions: the keys of sessions in insertion order
    mg_result,        \* merge_into_sessions: result (None before it returns)
    mg_pc,            \* merge_into_sessions: "folding" | "returned"
    em_sessions,      \* format_openmetrics: its argument
    em_lines,         \* format_openmetrics: the sample lines appended so far
    em_pc,            \* format_openmetrics: the metric family it is about to emit
    pu_events,        \* push_to_loki: events
    pu_batch_size,    \* push_to_loki: batch_size
    pu_dry_run,       \* push_to_loki: dry_run
    pu_batch,         \* push_to_loki: the number of the batch being pushed
    pu_attempt,       \* _post_json: attempt
    pu_total_pushed,  \* push_to_loki: total_pushed
    pu_total_errors,  \* push_to_loki: total_errors
    pu_sleeps,        \* the time.sleep calls made for the current batch, in order
    pu_responses,     \* the HTTP responses received for the current batch, in order
    pu_plan,          \* the batches of lines 175-180, in the order the loops reach them
    pu_last,          \* the batch finished last: its responses, sleeps and counters
    pu_log,           \* one entry per finished batch: what was sent and how it ended
    pu_pc,            \* push_to_loki: "pushing" | "returned"
    mp_model_id,      \* match_pricing: model_id
    mp_result,        \* match_pricing: what it returned (None before it returns)
    mp_pc             \* match_pricing: "called" | "returned"

exVars == <<ex_file, ex_pending, ex_events, ex_pc>>
pfVars == <<pf_file, pf_locals, pf_result, pf_pc>>
mgVars == <<mg_parsed, mg_sessions, mg_order, mg_result, mg_pc>>
emVars == <<em_sessions, em_lines, em_pc>>
puVars == <<pu_events, pu_batch_size, pu_dry_run, pu_batch, pu_attempt, pu_total_pushed,
            pu_total_errors, pu_sleeps, pu_responses, pu_plan, pu_last, pu_log, pu_pc>>
mpVars == <<mp_model_id, mp_result, mp_pc>>
vars == <<mode, exVars, pfVars, mgVars, emVars, puVars, mpVars>>

\* What a step of one function leaves alone.
notEx == <<mode, pfVars, mgVars, emVars, puVars, mpVars>>
notPf == <<mode, exVars, mgVars, emVars, puVars, mpVars>>
notMg == <<mode, exVars, pfVars, emVars, puVars, mpVars>>
notEm == <<mode, exVars, pfVars, mgVars, puVars, mpVars>>
notPu == <<mode, exVars, pfVars, mgVars, emVars, mpVars>>
notMp == <<mode, exVars, pfVars, mgVars, emVars, puVars>>

(***************************************************************************)
(* Python values                                                           *)
(***************************************************************************)
None == << >>
Some(v) == << v >>
EmptyDict == [k \in {} |-> k]
\* The lists of a list of lists, joined in order.
RECURSIVE Concat(_)
Concat(seqs) == IF seqs = << >> THEN << >> ELSE Head(seqs) \o Concat(Tail(seqs))
DictSet(d, k, v) == [x \in (DOMAIN d) \cup {k} |-> IF x = k THEN v ELSE d[x]]
DictDel(d, k) == [x \in (DOMAIN d) \ {k} |-> d[x]]

Max(a, b) == IF a >= b THEN a ELSE b
Abs(a) == IF a >= 0 THEN a ELSE 0 - a

(***************************************************************************)
(* parse_timestamp (both scripts)                                          *)
(***************************************************************************)
\* The number of float steps in one second for 2^30 <= sec < 2^31.
GridPerSecond == 2 ^ 22

\* round(ms * 2^22 / 1000): ms/1000 s rounded to the nearest float step.  The
\* quotient is never half-way (125 does not divide ms * 2^20 unless the result
\* is whole), so rounding half up is the IEEE rounding.
FracOfMs(ms) == (ms * (2 ^ 20) + 125) \div 250

\* dt.timestamp(): the float of an instant.
TimestampFloat(instant) ==
    IF instant.sec = 0 /\ instant.ms = 0
    THEN [sec |-> 0, frac |-> 0]
    ELSE [sec |-> instant.sec, frac |-> FracOfMs(instant.ms)]

\* A "timestamp" field is [kind, sec, ms]: absent, a string fromisoformat
\* rejects ("garbage"), or an ISO instant.
parse_timestamp(ts_str) ==
    IF ts_str.kind = "absent" THEN None
    ELSE IF ts_str.kind = "garbage" THEN None
    ELSE Some(TimestampFloat(ts_str))

\* Python truthiness of parse_timestamp's result: None and 0.0 are false.
Truthy(ts) == ts # None /\ ~(ts[1].sec = 0 /\ ts[1].frac = 0)

(***************************************************************************)
(* extract_tool_events                                                     *)
(***************************************************************************)
NoId == ""

build_tool_parameters(tool_name, input_dict) ==
    IF tool_name = "Bash" /\ "command" \in DOMAIN input_dict
    THEN Some([bash_command |-> input_dict.command])
    ELSE IF tool_name = "Skill" /\ "skill" \in DOMAIN input_dict
    THEN Some([skill_name |-> input_dict.skill])
    ELSE None

\* int((ts - pending["timestamp"]) * 1000): the difference of two floats of the
\* same binade is exact, so is its product with 1000; int() truncates toward 0.
DurationTrunc(ts, pts) ==
    LET ds == ts.sec - pts.sec
        n  == (ts.frac - pts.frac) * 125
        fl == ds * 1000 + (n \div (2 ^ 19))
        r  == n % (2 ^ 19)
    IN IF fl < 0 /\ r # 0 THEN fl + 1 ELSE fl

MaxDurationMs == 600000

\* The guard of lines 142-143.
DurationGuard(d) == IF d <= 0 \/ d > MaxDurationMs THEN None ELSE Some(d)

DurationMs(ts, pts) == DurationGuard(DurationTrunc(ts, pts))

SuccessFlip(block) == block.is_error
Success(block) == ~block.is_error

RegisterPendingOnce(pending, block, ts, instant, origin) ==
    IF block.id \in DOMAIN pending THEN pending
    ELSE DictSet(pending, block.id,
                 [name |-> block.name, input |-> block.input, timestamp |-> ts,
                  g_instant |-> instant, g_origin |-> origin])
\* pending_tools[tool_id] = {...}: registers or overwrites.  g_instant and
\* g_origin are history: the instant and the place of the tool_use.
RegisterPending(pending, block, ts, instant, origin) ==
    DictSet(pending, block.id,
            [name |-> block.name, input |-> block.input, timestamp |-> ts,
             g_instant |-> instant, g_origin |-> origin])

PopPendingKeep(pending, id) == pending
\* pending_tools.pop(tool_use_id): what is left of the dict.
PopPending(pending, id) == DictDel(pending, id)

\* Lines 110-121: the tool_use blocks of an assistant line, in order.
RECURSIVE ScanToolUse(_, _, _, _, _, _)
ScanToolUse(pending, content, ts, instant, line, i) ==
    IF i > Len(content) THEN pending
    ELSE LET block == content[i] IN
         IF block.type = "tool_use" /\ block.id # NoId
         THEN ScanToolUse(RegisterPending(pending, block, ts, instant, <<line, i>>),
                          content, ts, instant, line, i + 1)
         ELSE ScanToolUse(pending, content, ts, instant, line, i + 1)

\* Lines 149-157: the event dict.  timestamp is the result's float (the
\* timestamp_ns string is modelled where it is read, in push_to_loki);
\* g_* are history.
MakeEvent(pending_entry, block, ts, instant, origin) ==
    [timestamp |-> ts,
     project |-> "p1",
     session_id |-> "s1",
     tool_name |-> pending_entry.name,
     success |-> Success(block),
     duration_ms |-> DurationMs(ts, pending_entry.timestamp),
     tool_parameters |-> build_tool_parameters(pending_entry.name, pending_entry.input),
     g_origin |-> origin,
     g_use_origin |-> pending_entry.g_origin,
     g_instant |-> instant,
     g_use_instant |-> pending_entry.g_instant]

\* Lines 124-157: the tool_result blocks of a user line, in order.
RECURSIVE ScanToolResult(_, _, _, _, _, _, _)
ScanToolResult(pending, events, content, ts, instant, line, i) ==
    IF i > Len(content) THEN [pending |-> pending, events |-> events]
    ELSE LET block == content[i] IN
         IF block.type # "tool_result"
         THEN ScanToolResult(pending, events, content, ts, instant, line, i + 1)
         ELSE IF block.tool_use_id = NoId \/ block.tool_use_id \notin DOMAIN pending
         THEN ScanToolResult(pending, events, content, ts, instant, line, i + 1)
         ELSE ScanToolResult(
                  PopPending(pending, block.tool_use_id),
                  Append(events,
                         MakeEvent(pending[block.tool_use_id], block, ts, instant,
                                   <<line, i>>)),
                  content, ts, instant, line, i + 1)

\* Whether the loop body gets past its guards (lines 89-107): the line is not
\* blank, decodes as JSON, has a truthy timestamp, a dict message and a list
\* content.
LinePasses(rec) ==
    /\ rec.shape = "ok"
    /\ Truthy(parse_timestamp(rec.timestamp))

\* One iteration of the loop of lines 88-157.
ExtractStep(pending, events, rec, line) ==
    IF ~LinePasses(rec) THEN [pending |-> pending, events |-> events]
    ELSE LET ts == parse_timestamp(rec.timestamp)[1]
             p1 == IF rec.type = "assistant"
                   THEN ScanToolUse(pending, rec.content, ts, rec.timestamp, line, 1)
                   ELSE pending
         IN IF rec.type = "user"
            THEN ScanToolResult(p1, events, rec.content, ts, rec.timestamp, line, 1)
            ELSE [pending |-> p1, events |-> events]

(***************************************************************************)
(* The lines extract_tool_events is run on                                 *)
(***************************************************************************)
MaxRecords == 3

\* 2025-01-01T00:00:00Z
BaseSec == 1735689600

Iso(sec, ms) == [kind |-> "iso", sec |-> sec, ms |-> ms]
AbsentTimestamp == [kind |-> "absent", sec |-> 0, ms |-> 0]
GarbageTimestamp == [kind |-> "garbage", sec |-> 0, ms |-> 0]
EpochTimestamp == Iso(0, 0)

\* 00:00:00.000, 00:00:02.000 and 00:10:01.001 of that day.
ExtractInstants == {Iso(BaseSec, 0), Iso(BaseSec + 2, 0), Iso(BaseSec + 601, 1)}

ToolUse(id, name) ==
    [type |-> "tool_use", id |-> id, name |-> name,
     input |-> IF name = "Bash" THEN [command |-> "ls"] ELSE [file_path |-> "f"]]
ToolResult(id, err) == [type |-> "tool_result", tool_use_id |-> id, is_error |-> err]

AssistantContents ==
    {<<ToolUse("a1", "Bash")>>, <<ToolUse("a1", "Read")>>, <<ToolUse("b2", "Bash")>>,
     <<ToolUse("a1", "Bash"), ToolUse("a1", "Read")>>}
UserContents ==
    {<<ToolResult("a1", FALSE)>>, <<ToolResult("a1", TRUE)>>, <<ToolResult("b2", FALSE)>>,
     <<ToolResult("a1", FALSE), ToolResult("a1", FALSE)>>}

Line(shape, type, timestamp, content) ==
    [shape |-> shape, type |-> type, timestamp |-> timestamp, content |-> content]

ExtractRecords ==
    {Line("ok", "assistant", t, c) : t \in ExtractInstants, c \in AssistantContents}
    \cup {Line("ok", "user", t, c) : t \in ExtractInstants, c \in UserContents}
    \cup {Line("ok", "system", t, <<ToolUse("a1", "Bash")>>) : t \in ExtractInstants}
    \cup {Line("ok", "assistant", t, <<ToolUse("a1", "Bash")>>) :
            t \in {AbsentTimestamp, GarbageTimestamp, EpochTimestamp}}
    \cup {Line("ok", "user", t, <<ToolResult("a1", FALSE)>>) :
            t \in {AbsentTimestamp, EpochTimestamp}}
    \cup {Line(s, "user", Iso(BaseSec + 2, 0), <<ToolResult("a1", FALSE)>>) :
            s \in {"bad_json", "no_message", "content_not_list"}}

(***************************************************************************)
(* parse_file                                                              *)
(***************************************************************************)
\* A command is a string; the two patterns are the sets of the commands used
\* here that they match (_GIT_COMMIT_RE, _GH_PR_CREATE_RE).
Commands == {"ls", "git commit -m x", "gh pr create", "git commit -m x && gh pr create"}
GitCommitMatch(cmd) == cmd \in {"git commit -m x", "git commit -m x && gh pr create"}
GhPrCreateMatch(cmd) == cmd \in {"gh pr create", "git commit -m x && gh pr create"}

\* A text is the sequence of its characters; "\n" is the line feed.
RECURSIVE CountNewlines(_)
CountNewlines(text) ==
    IF text = << >> THEN 0
    ELSE (IF Head(text) = "\n" THEN 1 ELSE 0) + CountNewlines(Tail(text))

\* old.count("\n") + 1 for a non-empty string, nothing for an empty one.
LineCount(text) == IF text = << >> THEN 0 ELSE CountNewlines(text) + 1

\* dict.get(key, 0)
GetOrZero(d, k) == IF k \in DOMAIN d THEN d[k] ELSE 0

ZeroCounts == [input |-> 0, output |-> 0, cacheRead |-> 0, cacheCreation |-> 0]

\* The locals of parse_file at lines 83-93.  g_counted is history: one entry
\* per increment of commits or pull_requests.
ParseLocalsInit ==
    [session_id |-> None,
     tokens |-> EmptyDict,
     timestamps |-> << >>,
     lines_added |-> 0,
     lines_removed |-> 0,
     pending_commits |-> {},
     pending_prs |-> {},
     commits |-> 0,
     pull_requests |-> 0,
     g_counted |-> << >>]

DiscardNone(st, tuid) == st
\* Lines 137-138: the else branch.
DiscardBoth(st, tuid) ==
    [st EXCEPT !.pending_commits = @ \ {tuid}, !.pending_prs = @ \ {tuid}]

\* Lines 127-138: one block of the first loop.
ResultBlock(st, block, place) ==
    IF block.type # "tool_result" THEN st
    ELSE LET tuid == block.tool_use_id IN
         IF tuid # NoId /\ ~block.is_error
         THEN IF tuid \in st.pending_commits
              THEN [st EXCEPT !.commits = @ + 1,
                              !.pending_commits = @ \ {tuid},
                              !.g_counted = Append(@, [kind |-> "commit", id |-> tuid,
                                                       place |-> place])]
              ELSE IF tuid \in st.pending_prs
              THEN [st EXCEPT !.pull_requests = @ + 1,
                              !.pending_prs = @ \ {tuid},
                              !.g_counted = Append(@, [kind |-> "pr", id |-> tuid,
                                                       place |-> place])]
              ELSE st
         ELSE DiscardBoth(st, tuid)

RECURSIVE ScanResults(_, _, _, _)
ScanResults(st, content, line, i) ==
    IF i > Len(content) THEN st
    ELSE ScanResults(ResultBlock(st, content[i], <<line, i>>), content, line, i + 1)

\* Lines 145-169: one block of the second loop.
UseBlock(st, block) ==
    IF block.type # "tool_use" THEN st
    ELSE IF block.name = "Edit"
    THEN [st EXCEPT !.lines_removed = @ + LineCount(block.input.old_string),
                    !.lines_added = @ + LineCount(block.input.new_string)]
    ELSE IF block.name = "Write"
    THEN [st EXCEPT !.lines_added = @ + LineCount(block.input.content)]
    ELSE IF block.name = "Bash"
    THEN IF GitCommitMatch(block.input.command)
         THEN [st EXCEPT !.pending_commits = @ \cup {block.id}]
         ELSE IF GhPrCreateMatch(block.input.command)
         THEN [st EXCEPT !.pending_prs = @ \cup {block.id}]
         ELSE st
    ELSE st

RECURSIVE ScanUses(_, _, _)
ScanUses(st, content, i) ==
    IF i > Len(content) THEN st
    ELSE ScanUses(UseBlock(st, content[i]), content, i + 1)

\* Lines 172-182: token accounting.
AddUsageTimed(st, rec) ==
    IF rec.usage = None \/ DOMAIN rec.usage[1] = {} \/ parse_timestamp(rec.timestamp) = None
    THEN st
    ELSE LET usage == rec.usage[1]
             old == IF rec.model \in DOMAIN st.tokens THEN st.tokens[rec.model]
                    ELSE ZeroCounts
         IN [st EXCEPT !.tokens = DictSet(@, rec.model,
                [input |-> old.input + GetOrZero(usage, "input_tokens"),
                 output |-> old.output + GetOrZero(usage, "output_tokens"),
                 cacheRead |-> old.cacheRead + GetOrZero(usage, "cache_read_input_tokens"),
                 cacheCreation |-> old.cacheCreation
                                   + GetOrZero(usage, "cache_creation_input_tokens")])]
\* Lines 172-182.
AddUsage(st, rec) ==
    IF rec.usage = None \/ DOMAIN rec.usage[1] = {} THEN st
    ELSE LET usage == rec.usage[1]
             old == IF rec.model \in DOMAIN st.tokens THEN st.tokens[rec.model]
                    ELSE ZeroCounts
         IN [st EXCEPT !.tokens = DictSet(@, rec.model,
                [input |-> old.input + GetOrZero(usage, "input_tokens"),
                 output |-> old.output + GetOrZero(usage, "output_tokens"),
                 cacheRead |-> old.cacheRead + GetOrZero(usage, "cache_read_input_tokens"),
                 cacheCreation |-> old.cacheCreation
                                   + GetOrZero(usage, "cache_creation_input_tokens")])]

\* Lines 106-113: the session id of the first line that has one, and the
\* timestamp of every line that has a truthy one.
NoteSessionAndTime(st, rec) ==
    LET s1 == IF st.session_id = None /\ rec.sessionId # None
              THEN [st EXCEPT !.session_id = rec.sessionId] ELSE st
        ts == parse_timestamp(rec.timestamp)
    IN IF Truthy(ts) THEN [s1 EXCEPT !.timestamps = Append(@, ts[1])] ELSE s1

\* One iteration of the loop of lines 97-182.
ParseStep(st, rec, line) ==
    IF rec.shape \in {"blank", "bad_json"} THEN st
    ELSE LET s1 == NoteSessionAndTime(st, rec) IN
         IF rec.shape # "ok" THEN s1
         ELSE LET s2 == ScanResults(s1, rec.content, line, 1) IN
              IF rec.type # "assistant" THEN s2
              ELSE AddUsage(ScanUses(s2, rec.content, 1), rec)

\* Lines 187-199: None, or the fragment.
ParseResult(st) ==
    IF st.session_id = None \/ DOMAIN st.tokens = {} THEN None
    ELSE Some([session_id |-> st.session_id[1],
               project |-> "p1",
               tokens |-> st.tokens,
               timestamps |-> st.timestamps,
               lines_added |-> st.lines_added,
               lines_removed |-> st.lines_removed,
               commits |-> st.commits,
               pull_requests |-> st.pull_requests])

(***************************************************************************)
(* The lines parse_file is run on                                          *)
(***************************************************************************)
BashUse(id, cmd) ==
    [type |-> "tool_use", id |-> id, name |-> "Bash", input |-> [command |-> cmd]]
EditUse(id, old, new) ==
    [type |-> "tool_use", id |-> id, name |-> "Edit",
     input |-> [old_string |-> old, new_string |-> new]]
WriteUse(id, text) ==
    [type |-> "tool_use", id |-> id, name |-> "Write", input |-> [content |-> text]]

PLine(shape, type, timestamp, sessionId, content, usage, model) ==
    [shape |-> shape, type |-> type, timestamp |-> timestamp, sessionId |-> sessionId,
     content |-> content, usage |-> usage, model |-> model]

Usage1 == [input_tokens |-> 3, output_tokens |-> 1]
ParseInstant == Iso(BaseSec + 2, 0)

ParseAssistantContents ==
    {<<BashUse("a1", "git commit -m x")>>, <<BashUse("a1", "gh pr create")>>,
     <<BashUse("b2", "git commit -m x && gh pr create")>>, <<BashUse("a1", "ls")>>,
     <<BashUse("a1", "git commit -m x"), ToolResult("a1", FALSE)>>,
     <<EditUse("c3", <<"x", "\n", "y">>, <<"z">>)>>,
     <<WriteUse("c3", <<"x", "\n">>)>>}
ParseUserContents ==
    {<<ToolResult("a1", FALSE)>>, <<ToolResult("a1", TRUE)>>, <<ToolResult("b2", FALSE)>>,
     <<ToolResult("a1", FALSE), ToolResult("a1", FALSE)>>}

ParseRecords ==
    {PLine("ok", "assistant", ParseInstant, Some("s1"), c, Some(Usage1), "claude-opus-4") :
        c \in ParseAssistantContents}
    \cup {PLine("ok", "user", Iso(BaseSec + 601, 1), Some("s1"), c, None, "unknown") :
            c \in ParseUserContents}
    \cup {PLine("ok", "assistant", AbsentTimestamp, None,
                <<EditUse("c3", << >>, <<"z">>), BashUse("a1", "git commit -m x")>>,
                Some(Usage1), "claude-haiku-4"),
          PLine("ok", "user", EpochTimestamp, Some("s2"), <<ToolResult("a1", FALSE)>>,
                None, "unknown"),
          PLine("ok", "assistant", ParseInstant, Some("s1"), << >>, None, "unknown"),
          PLine("no_message", "user", Iso(BaseSec, 0), Some("s2"), << >>, None, "unknown"),
          PLine("bad_json", "user", Iso(BaseSec, 0), Some("s2"), << >>, None, "unknown")}

(***************************************************************************)
(* match_pricing and MODEL_PRICING                                         *)
(***************************************************************************)
\* USD per million tokens, in hundredths: a count times a rate is the cost in
\* units of 10^-8 USD.
MODEL_PRICING ==
    [opus   |-> [input |-> 1500, output |-> 7500, cacheCreation |-> 1875, cacheRead |-> 150],
     sonnet |-> [input |-> 300, output |-> 1500, cacheCreation |-> 375, cacheRead |-> 30],
     haiku  |-> [input |-> 80, output |-> 400, cacheCreation |-> 100, cacheRead |-> 8]]

\* A model id is the sequence of its characters.
UpperLetters == <<"A", "E", "H", "I", "K", "O", "P", "S", "U">>
LowerLetters == <<"a", "e", "h", "i", "k", "o", "p", "s", "u">>
LowerChar(c) ==
    IF \E i \in 1 .. Len(UpperLetters) : UpperLetters[i] = c
    THEN LowerLetters[CHOOSE i \in 1 .. Len(UpperLetters) : UpperLetters[i] = c]
    ELSE c
LowerKeep(str) == str
\* str.lower()
Lower(str) == [i \in 1 .. Len(str) |-> LowerChar(str[i])]
\* pat in str
Contains(str, pat) ==
    \E i \in 1 .. (Len(str) - Len(pat) + 1) : SubSeq(str, i, i + Len(pat) - 1) = pat

match_pricing(model_id) ==
    IF model_id = << >> THEN MODEL_PRICING.sonnet
    ELSE LET m == Lower(model_id) IN
         IF Contains(m, <<"o", "p", "u", "s">>) THEN MODEL_PRICING.opus
         ELSE IF Contains(m, <<"h", "a", "i", "k", "u">>) THEN MODEL_PRICING.haiku
         ELSE MODEL_PRICING.sonnet

(***************************************************************************)
(* The model ids match_pricing is run on                                   *)
(***************************************************************************)
MaxPieces == 3

\* A model id is made of up to MaxPieces of these pieces; none is the absent
\* (None or empty) id.
IdPieces ==
    {<<"o", "p", "u", "s">>, <<"O", "P", "U", "S">>, <<"O", "p", "u", "s">>,
     <<"h", "a", "i", "k", "u">>, <<"H", "A", "I", "K", "U">>, <<"h", "A", "i", "K", "u">>,
     <<"s", "o", "n", "n", "e", "t">>, <<"o", "p", "u">>, <<"a", "i", "k", "u">>,
     <<"c", "l", "a", "u", "d", "e", "-">>, <<"-", "4">>, <<"u", "n", "k", "n", "o", "w", "n">>}

ModelIds ==
    UNION {{Concat(f) : f \in [1 .. len -> IdPieces]} : len \in 0 .. MaxPieces}

(***************************************************************************)
(* merge_into_sessions                                                     *)
(***************************************************************************)
RECURSIVE SumSeq(_)
SumSeq(vals) == IF vals = << >> THEN 0 ELSE Head(vals) + SumSeq(Tail(vals))

RECURSIVE SumOverSet(_, _)
SumOverSet(f, keys) ==
    IF keys = {} THEN 0
    ELSE LET k == CHOOSE x \in keys : TRUE IN f[k] + SumOverSet(f, keys \ {k})

\* The order of floats.
FloatLeq(a, b) == a.sec < b.sec \/ (a.sec = b.sec /\ a.frac <= b.frac)
Range(seq) == {seq[i] : i \in 1 .. Len(seq)}
MinFloatHead(seq) == Head(seq)
MinFloat(seq) == CHOOSE x \in Range(seq) : \A y \in Range(seq) : FloatLeq(x, y)
MaxFloat(seq) == CHOOSE x \in Range(seq) : \A y \in Range(seq) : FloatLeq(y, x)
\* a - b for a >= b, as [sec, frac] with 0 <= frac < 2^22.
FloatDiff(a, b) ==
    IF a.frac >= b.frac THEN [sec |-> a.sec - b.sec, frac |-> a.frac - b.frac]
    ELSE [sec |-> a.sec - b.sec - 1, frac |-> a.frac - b.frac + GridPerSecond]
ZeroFloat == [sec |-> 0, frac |-> 0]

\* Lines 208-217: the entry of a session id seen for the first time.
NewSession(pf) ==
    [session_id |-> pf.session_id,
     project |-> pf.project,
     tokens |-> EmptyDict,
     timestamps |-> << >>,
     lines_added |-> 0,
     lines_removed |-> 0,
     commits |-> 0,
     pull_requests |-> 0]

AddCountOverwrite(old, count) == count
\* s["tokens"][model][token_type] += count
AddCount(old, count) == old + count

\* Lines 220-222 for one model: the counts of a defaultdict(int).
MergeCounts(old, counts) ==
    [t \in (DOMAIN old) \cup (DOMAIN counts) |->
        IF t \in DOMAIN counts THEN AddCount(GetOrZero(old, t), counts[t]) ELSE old[t]]

\* Lines 220-222.
MergeTokens(tokens, pftokens) ==
    [m \in (DOMAIN tokens) \cup (DOMAIN pftokens) |->
        IF m \in DOMAIN pftokens
        THEN MergeCounts(IF m \in DOMAIN tokens THEN tokens[m] ELSE EmptyDict, pftokens[m])
        ELSE tokens[m]]

\* Lines 218-226: fold one fragment into its session.
FoldFragment(s, pf) ==
    [s EXCEPT !.timestamps = @ \o pf.timestamps,
              !.tokens = MergeTokens(@, pf.tokens),
              !.lines_added = @ + pf.lines_added,
              !.lines_removed = @ + pf.lines_removed,
              !.commits = @ + pf.commits,
              !.pull_requests = @ + pf.pull_requests]

ModelCostSonnet(model, counts) ==
    SumOverSet([t \in DOMAIN counts |-> counts[t] * GetOrZero(MODEL_PRICING.sonnet, t)],
               DOMAIN counts)
\* Lines 236-239, in units of 10^-8 USD.
ModelCost(model, counts) ==
    LET pricing == match_pricing(model) IN
    SumOverSet([t \in DOMAIN counts |-> counts[t] * GetOrZero(pricing, t)], DOMAIN counts)

\* Lines 231-259: the canonical session of one entry.
FinalizeSession(s) ==
    LET start_ts == IF s.timestamps # << >> THEN Some(MinFloat(s.timestamps)) ELSE None
        end_ts == IF s.timestamps # << >> THEN Some(MaxFloat(s.timestamps)) ELSE None
    IN [session_id |-> s.session_id,
        project |-> s.project,
        tokens |-> s.tokens,
        cost_by_model |-> [m \in DOMAIN s.tokens |-> ModelCost(m, s.tokens[m])],
        active_seconds |-> IF Truthy(start_ts) /\ Truthy(end_ts)
                           THEN FloatDiff(end_ts[1], start_ts[1]) ELSE ZeroFloat,
        start_ts |-> start_ts,
        end_ts |-> end_ts,
        lines_added |-> s.lines_added,
        lines_removed |-> s.lines_removed,
        commits |-> s.commits,
        pull_requests |-> s.pull_requests]

(***************************************************************************)
(* The fragments merge_into_sessions is run on                             *)
(***************************************************************************)
MaxFragments == 3

OpusId == <<"c", "-", "O", "p", "u", "s", "-", "4">>
HaikuId == <<"c", "-", "h", "a", "i", "k", "u">>

Counts(i, o, cr, cc) == [input |-> i, output |-> o, cacheRead |-> cr, cacheCreation |-> cc]

\* Scenario B: a usage with input_tokens 1000 and output_tokens 500 only.
ScenarioBTokens == [m \in {OpusId} |-> [input |-> 1000, output |-> 500]]

FragmentTokens ==
    {[m \in {OpusId} |-> Counts(3, 1, 0, 0)],
     [m \in {OpusId, HaikuId} |-> IF m = OpusId THEN Counts(1, 1, 1, 1) ELSE Counts(2, 0, 5, 0)]}
FragmentTimestamps ==
    {<< >>,
     <<TimestampFloat(Iso(BaseSec + 2, 0))>>,
     <<TimestampFloat(Iso(BaseSec + 601, 1)), TimestampFloat(Iso(BaseSec, 0))>>}

Fragment(sid, project, tokens, timestamps, la, lr, c, pr) ==
    [session_id |-> sid, project |-> project, tokens |-> tokens, timestamps |-> timestamps,
     lines_added |-> la, lines_removed |-> lr, commits |-> c, pull_requests |-> pr]

Fragments ==
    {Fragment(sid, "p1", tk, ts, n[1], n[2], n[3], n[4]) :
        sid \in {"s1", "s2"}, tk \in FragmentTokens, ts \in FragmentTimestamps,
        n \in {<<0, 0, 0, 0>>, <<3, 2, 1, 1>>}}
    \cup {Fragment("s1", "p2", [m \in {OpusId} |-> Counts(3, 1, 0, 0)], << >>, 1, 0, 0, 2),
          Fragment("s2", "p1", ScenarioBTokens, <<TimestampFloat(Iso(BaseSec + 700, 0))>>,
                   0, 0, 0, 0)}

(***************************************************************************)
(* format_openmetrics                                                      *)
(*                                                                         *)
(* Times are in milliseconds and sample values in millionths: the text     *)
(* renders a timestamp with 3 decimals and a value with 6 (or as an        *)
(* integer when it is whole, which is the same number).  The sessions used *)
(* here start and end on whole seconds, whose floats are exact.            *)
(***************************************************************************)
\* round(a / b) for a >= 0, b > 0; no quotient used here is half-way.
RoundDiv(a, b) == (a + (b \div 2)) \div b

Micro == 10 ^ 6

\* step = 60 seconds (line 280).
StepMs == 60 * 1000

\* Line 290.
SampleCount(duration) ==
    IF duration >= StepMs THEN Max(1, duration \div StepMs) ELSE 1

FracLinear(val, i, n) == RoundDiv(val * i, n)
\* fmt(val * frac) with frac = 2 * i / (2 * n + 1) (lines 296-298).
FracValue(val, i, n) == RoundDiv(val * 2 * i, 2 * n + 1)

SampleTimeShort(start, duration, i, n) == start + RoundDiv(duration * i, n + 1)
\* start + duration * i / n, printed with three decimals (line 298).
SampleTime(start, duration, i, n) == start + RoundDiv(duration * i, n)

\* emit (lines 287-299): the n + 1 sample lines of one series.  g_total, g_n
\* and g_i are history: the value emit was given, n and the sample index.
emit(metric, labels, value, start, end) ==
    LET duration == end - start
        n == SampleCount(duration)
    IN [k \in 1 .. (n + 1) |->
           [kind |-> "sample", metric |-> metric, labels |-> labels,
            value |-> FracValue(value, k - 1, n),
            ts |-> SampleTime(start, duration, k - 1, n),
            g_total |-> value, g_n |-> n, g_i |-> k - 1]]

Header(metric) == <<[kind |-> "help", metric |-> metric], [kind |-> "type", metric |-> metric]>>

\* not s["start_ts"] or not s["end_ts"]: None and 0.0 are false.
LacksRange(s) ==
    \/ s.start_ts = None \/ s.start_ts = Some(0)
    \/ s.end_ts = None \/ s.end_ts = Some(0)

\* The elements of a finite set in some fixed order (the order of a dict's
\* items, which no claim here depends on).
RECURSIVE SeqOfSet(_)
SeqOfSet(S) ==
    IF S = {} THEN << >>
    ELSE LET x == CHOOSE y \in S : TRUE IN <<x>> \o SeqOfSet(S \ {x})

\* f"{cost:.6f}": a cost in 10^-8 USD rounded to millionths.
CostMicro(cost) == RoundDiv(cost, 100)

\* Lines 306-322 for one session.
TokenSeries(s) ==
    IF LacksRange(s) THEN << >>
    ELSE Concat([j \in 1 .. Len(SeqOfSet(DOMAIN s.tokens)) |->
           LET model == SeqOfSet(DOMAIN s.tokens)[j]
               types == SeqOfSet(DOMAIN s.tokens[model])
           IN Concat([t \in 1 .. Len(types) |->
                  IF s.tokens[model][types[t]] = 0 THEN << >>
                  ELSE emit("claude_code_token_usage_tokens_total",
                            [session_id |-> s.session_id, model |-> model,
                             project |-> s.project, type |-> types[t]],
                            s.tokens[model][types[t]] * Micro,
                            s.start_ts[1], s.end_ts[1])])])

\* Lines 329-343 for one session.
CostSeries(s) ==
    IF LacksRange(s) THEN << >>
    ELSE Concat([j \in 1 .. Len(SeqOfSet(DOMAIN s.cost_by_model)) |->
           LET model == SeqOfSet(DOMAIN s.cost_by_model)[j] IN
           IF s.cost_by_model[model] = 0 THEN << >>
           ELSE emit("claude_code_cost_usage_USD_total",
                     [session_id |-> s.session_id, model |-> model, project |-> s.project],
                     CostMicro(s.cost_by_model[model]),
                     s.start_ts[1], s.end_ts[1])])

\* Lines 350-360 for one session.
SessionCountSeries(s) ==
    IF LacksRange(s) THEN << >>
    ELSE emit("claude_code_session_count_total",
              [session_id |-> s.session_id, project |-> s.project],
              1 * Micro, s.start_ts[1], s.end_ts[1])

\* Lines 367-377 for one session; active_seconds is in milliseconds and
\* f"{...:.1f}" rounds it to tenths of a second.
ActiveTimeSeries(s) ==
    IF LacksRange(s) \/ s.active_seconds <= 0 THEN << >>
    ELSE emit("claude_code_active_time_seconds_total",
              [session_id |-> s.session_id, project |-> s.project],
              RoundDiv(s.active_seconds, 100) * (Micro \div 10),
              s.start_ts[1], s.end_ts[1])

\* Lines 384-399 for one session.
LinesSeries(s) ==
    IF LacksRange(s) THEN << >>
    ELSE (IF s.lines_added = 0 THEN << >>
          ELSE emit("claude_code_lines_of_code_count_total",
                    [session_id |-> s.session_id, project |-> s.project, type |-> "added"],
                    s.lines_added * Micro, s.start_ts[1], s.end_ts[1]))
         \o (IF s.lines_removed = 0 THEN << >>
             ELSE emit("claude_code_lines_of_code_count_total",
                       [session_id |-> s.session_id, project |-> s.project,
                        type |-> "removed"],
                       s.lines_removed * Micro, s.start_ts[1], s.end_ts[1]))

\* Lines 406-416 for one session.
CommitSeries(s) ==
    IF LacksRange(s) \/ s.commits = 0 THEN << >>
    ELSE emit("claude_code_commit_count_total",
              [session_id |-> s.session_id, project |-> s.project],
              s.commits * Micro, s.start_ts[1], s.end_ts[1])

\* Lines 423-433 for one session.
PullRequestSeries(s) ==
    IF LacksRange(s) \/ s.pull_requests = 0 THEN << >>
    ELSE emit("claude_code_pull_request_count_total",
              [session_id |-> s.session_id, project |-> s.project],
              s.pull_requests * Micro, s.start_ts[1], s.end_ts[1])

(***************************************************************************)
(* The sessions format_openmetrics is run on                               *)
(***************************************************************************)
MaxSessions == 1

\* start and end in seconds: no timestamps; Scenario C; a single instant;
\* 30, 60, 120 and 200 seconds.
SessionRanges ==
    {<<None, None>>, <<Some(0), Some(120)>>, <<Some(1000), Some(1000)>>,
     <<Some(1000), Some(1030)>>, <<Some(1000), Some(1060)>>, <<Some(1000), Some(1120)>>,
     <<Some(1000), Some(1200)>>}

SessionTokens ==
    {[m \in {OpusId} |-> Counts(100, 50, 0, 0)],
     [m \in {HaikuId} |-> Counts(0, 0, 1, 0)],
     [m \in {OpusId, HaikuId} |-> IF m = OpusId THEN Counts(1, 0, 0, 7) ELSE Counts(2, 0, 5, 0)]}

\* A Session as merge_into_sessions builds it, with times in milliseconds.
EmitSession(range, tokens, n) ==
    LET start == IF range[1] = None THEN None ELSE Some(range[1][1] * 1000)
        end == IF range[2] = None THEN None ELSE Some(range[2][1] * 1000)
    IN [session_id |-> "s1",
        project |-> "p1",
        tokens |-> tokens,
        cost_by_model |-> [m \in DOMAIN tokens |-> ModelCost(m, tokens[m])],
        active_seconds |-> IF start # None /\ start # Some(0) /\ end # None /\ end # Some(0)
                           THEN end[1] - start[1] ELSE 0,
        start_ts |-> start,
        end_ts |-> end,
        lines_added |-> n[1],
        lines_removed |-> n[2],
        commits |-> n[3],
        pull_requests |-> n[4]]

EmitSessions ==
    {EmitSession(r, tk, n) :
        r \in SessionRanges, tk \in SessionTokens,
        n \in {<<0, 0, 0, 0>>, <<3, 0, 10, 0>>, <<0, 2, 1, 2>>}}

\* The lists of up to MaxSessions sessions; the k-th has session id "s<k>".
SessionNames == <<"s1", "s2", "s3">>
EmitInputs ==
    UNION {{[k \in 1 .. len |-> [f[k] EXCEPT !.session_id = SessionNames[k]]] :
               f \in [1 .. len -> EmitSessions]} : len \in 1 .. MaxSessions}

(***************************************************************************)
(* push_to_loki and _post_json                                             *)
(***************************************************************************)
\* The decimal digits of n >= 0, most significant first.
RECURSIVE Digits(_)
Digits(n) == IF n < 10 THEN <<n>> ELSE Append(Digits(n \div 10), n % 10)

\* str(int(ts * 1_000_000_000)) (line 150) for a whole second ts < 2^31, where
\* the float product is exact: the digits of ts followed by nine zeros.
TimestampNs(sec) == Digits(sec) \o <<0, 0, 0, 0, 0, 0, 0, 0, 0>>

\* a < b for Python strings of digits: the order of the first character that
\* differs, a proper prefix being smaller.
StrLess(a, b) ==
    \E i \in 1 .. Len(b) :
        /\ \A j \in 1 .. (i - 1) : j <= Len(a) /\ a[j] = b[j]
        /\ (i > Len(a) \/ a[i] < b[i])
        /\ i <= Len(a) + 1

\* key=lambda e: e["timestamp_ns"] (line 176).
SortKey(ev) == ev.timestamp_ns

\* list.sort(key=...) (line 176) is stable: an element comes behind those
\* with a smaller key and those with an equal key that were before it.
SortRank(evs, i) ==
    Cardinality({j \in 1 .. Len(evs) :
                    \/ StrLess(SortKey(evs[j]), SortKey(evs[i]))
                    \/ SortKey(evs[j]) = SortKey(evs[i]) /\ j <= i})

SortEvents(evs) ==
    [k \in 1 .. Len(evs) |-> evs[CHOOSE i \in 1 .. Len(evs) : SortRank(evs, i) = k]]

\* Lines 168-170: by_project[project], in the order of events.
OfProject(ev, project) == ev.project = project
EventsOfProject(evs, project) == SelectSeq(evs, LAMBDA ev : OfProject(ev, project))

BatchesOfFull(project, evs, batch_size) ==
    [k \in 1 .. (Len(evs) \div batch_size) |->
        [project |-> project,
         events |-> SubSeq(evs, (k - 1) * batch_size + 1, k * batch_size)]]
\* Lines 179-180: proj_events[i : i + batch_size] for i in range(0, len, batch_size).
BatchesOf(project, evs, batch_size) ==
    [k \in 1 .. ((Len(evs) + batch_size - 1) \div batch_size) |->
        [project |-> project,
         events |-> SubSeq(evs, (k - 1) * batch_size + 1,
                           IF k * batch_size < Len(evs) THEN k * batch_size ELSE Len(evs))]]

\* The project labels in sorted() order (line 175).
ProjectOrder == <<"p1", "p2">>

\* Lines 175-180: every batch, in the order the loops reach it.
PushPlan(evs, batch_size) ==
    Concat([j \in 1 .. Len(ProjectOrder) |->
               BatchesOf(ProjectOrder[j],
                         SortEvents(EventsOfProject(evs, ProjectOrder[j])), batch_size)])

\* Lines 182-198: one entry of values; g_index is history (the event's place
\* in the argument).
PayloadValue(ev) ==
    [timestamp_ns |-> ev.timestamp_ns,
     line |-> <<"tool_result: ", ev.tool_name, " success=", ev.success>>,
     metadata |-> [event_name |-> "tool_result", tool_name |-> ev.tool_name,
                   success |-> ev.success, session_id |-> ev.session_id,
                   duration_ms |-> ev.duration_ms, tool_parameters |-> ev.tool_parameters],
     g_index |-> ev.g_index]

\* Lines 200-210.
Payload(batch) ==
    [stream |-> [service_name |-> "claude-code", project |-> batch.project],
     values |-> [k \in 1 .. Len(batch.events) |-> PayloadValue(batch.events[k])]]

\* max_retries (line 230).
MaxRetries == 5

BackoffLinear(attempt) == 2 * attempt
\* wait = 2 ** attempt (line 247), in seconds.
BackoffWait(attempt) == 2 ^ attempt

ErrorsUnchanged(total_errors) == total_errors
\* total_errors += 1 (line 221).
ErrorsAfterFailure(total_errors) == total_errors + 1

(***************************************************************************)
(* The events push_to_loki is run on                                       *)
(***************************************************************************)
MaxEvents == 2

\* 2001-09-09T01:46:39Z and the second after it, where the nanosecond
\* timestamp grows from 18 to 19 digits, and an instant of 2025.
PushSeconds == {999999999, 1000000000, BaseSec}

PushEvent(project, sec) ==
    [timestamp_ns |-> TimestampNs(sec), project |-> project, session_id |-> "s1",
     tool_name |-> "Bash", success |-> TRUE, duration_ms |-> Some(2000),
     tool_parameters |-> Some([bash_command |-> "ls"])]

PushEvents == {PushEvent(p, sec) : p \in {"p1", "p2"}, sec \in PushSeconds}

\* The lists of up to MaxEvents events, each tagged with its place.
PushInputs ==
    UNION {{[k \in 1 .. len |->
                [timestamp_ns |-> f[k].timestamp_ns, project |-> f[k].project,
                 session_id |-> f[k].session_id, tool_name |-> f[k].tool_name,
                 success |-> f[k].success, duration_ms |-> f[k].duration_ms,
                 tool_parameters |-> f[k].tool_parameters, g_index |-> k]] :
               f \in [1 .. len -> PushEvents]} : len \in 0 .. MaxEvents}

BatchSizes == {1, 2}

\* The lists and batch sizes of the dry runs.
MaxDryEvents == 3
DryInputs ==
    UNION {{[k \in 1 .. len |->
                [timestamp_ns |-> f[k].timestamp_ns, project |-> f[k].project,
                 session_id |-> f[k].session_id, tool_name |-> f[k].tool_name,
                 success |-> f[k].success, duration_ms |-> f[k].duration_ms,
                 tool_parameters |-> f[k].tool_parameters, g_index |-> k]] :
               f \in [1 .. len -> PushEvents]} : len \in 0 .. MaxDryEvents}
DryBatchSizes == {1, 2, 3}
HttpErrorCodes == {429, 500}

(***************************************************************************)
(* merge_into_sessions as a function of the list it is given               *)
(***************************************************************************)
\* Lines 205-226: sessions after the loop over parsed_files.
RECURSIVE FoldAll(_, _)
FoldAll(sessions, parsed_files) ==
    IF parsed_files = << >> THEN sessions
    ELSE LET pf == Head(parsed_files)
             sid == pf.session_id
             s == IF sid \in DOMAIN sessions THEN sessions[sid] ELSE NewSession(pf)
         IN FoldAll(DictSet(sessions, sid, FoldFragment(s, pf)), Tail(parsed_files))

\* Lines 229-260: the canonical session of every session id.
CanonicalSessions(parsed_files) ==
    LET sessions == FoldAll(EmptyDict, parsed_files)
    IN [sid \in DOMAIN sessions |-> FinalizeSession(sessions[sid])]

(***************************************************************************)
(* The state of each function before it has read anything                  *)
(***************************************************************************)
PricingIdle ==
    /\ mp_model_id = << >>
    /\ mp_result = None
    /\ mp_pc = "idle"

ExtractIdle ==
    /\ ex_file = << >>
    /\ ex_pending = EmptyDict
    /\ ex_events = << >>
    /\ ex_pc = "reading"

ParseIdle ==
    /\ pf_file = << >>
    /\ pf_locals = ParseLocalsInit
    /\ pf_result = None
    /\ pf_pc = "reading"

MergeIdle ==
    /\ mg_parsed = << >>
    /\ mg_sessions = EmptyDict
    /\ mg_order = << >>
    /\ mg_result = None
    /\ mg_pc = "folding"

EmitIdle ==
    /\ em_sessions = << >>
    /\ em_lines = << >>
    /\ em_pc = "tokens"

PushIdle ==
    /\ pu_events = << >>
    /\ pu_batch_size = 1
    /\ pu_dry_run = FALSE
    /\ pu_batch = 1
    /\ pu_attempt = 0
    /\ pu_total_pushed = 0
    /\ pu_total_errors = 0
    /\ pu_sleeps = << >>
    /\ pu_responses = << >>
    /\ pu_plan = << >>
    /\ pu_last = None
    /\ pu_log = << >>
    /\ pu_pc = "pushing"

(***************************************************************************)
(* extract_tool_events as a state machine                                  *)
(***************************************************************************)
InitExtract ==
    /\ mode = "extract"
    /\ PricingIdle /\ ExtractIdle /\ ParseIdle /\ MergeIdle /\ EmitIdle /\ PushIdle

\* One line of the file: one iteration of the for loop.
ExtractLine ==
    /\ mode = "extract"
    /\ ex_pc = "reading"
    /\ Len(ex_file) < MaxRecords
    /\ \E rec \in ExtractRecords :
         LET out == ExtractStep(ex_pending, ex_events, rec, Len(ex_file) + 1) IN
         /\ ex_file' = Append(ex_file, rec)
         /\ ex_pending' = out.pending
         /\ ex_events' = out.events
    /\ UNCHANGED <<ex_pc, notEx>>

\* End of file: return events (line 162); pending_tools is dropped.
ExtractReturn ==
    /\ mode = "extract"
    /\ ex_pc = "reading"
    /\ ex_pc' = "returned"
    /\ UNCHANGED <<ex_file, ex_pending, ex_events, notEx>>

\* Reading the file raises OSError or UnicodeDecodeError, at the open or at
\* any later line: lines 159-160 print a warning, line 162 returns events.
ExtractFail ==
    /\ mode = "extract"
    /\ ex_pc = "reading"
    /\ ex_pc' = "failed"
    /\ UNCHANGED <<ex_file, ex_pending, ex_events, notEx>>

NextExtract == ExtractFail \/ ExtractLine \/ ExtractReturn

SpecExtract == InitExtract /\ [][NextExtract]_vars

(***************************************************************************)
(* Claims about extract_tool_events                                        *)
(***************************************************************************)
Ids == {"a1", "b2"}

\* The places <<line, block>> of the blocks read so far.
ExPlaces ==
    {p \in (1 .. Len(ex_file)) \X (1 .. 2) : p[2] <= Len(ex_file[p[1]].content)}
PlaceBefore(p, q) == p[1] < q[1] \/ (p[1] = q[1] /\ p[2] < q[2])
ExBlock(p) == ex_file[p[1]].content[p[2]]

\* A record the claims call well formed with a valid timestamp: it decodes,
\* has a message with a block list, and its timestamp parses to an instant
\* other than the epoch itself (which the code takes for a missing one).
ValidRecord(rec) ==
    /\ rec.shape = "ok"
    /\ rec.timestamp.kind = "iso"
    /\ rec.timestamp # EpochTimestamp

IsUseOf(p, id) ==
    /\ ValidRecord(ex_file[p[1]])
    /\ ex_file[p[1]].type = "assistant"
    /\ ExBlock(p).type = "tool_use"
    /\ ExBlock(p).id = id
IsResultOf(p, id) ==
    /\ ValidRecord(ex_file[p[1]])
    /\ ex_file[p[1]].type = "user"
    /\ ExBlock(p).type = "tool_result"
    /\ ExBlock(p).tool_use_id = id

\* id was invoked before p and no result for it lies in between.
HasOpenUse(p, id) ==
    \E q \in ExPlaces :
        /\ IsUseOf(q, id)
        /\ PlaceBefore(q, p)
        /\ ~\E r \in ExPlaces :
               IsResultOf(r, id) /\ PlaceBefore(q, r) /\ PlaceBefore(r, p)

EventsAt(p) == {k \in 1 .. Len(ex_events) : ex_events[k].g_origin = p}
EventsOfId(id) ==
    {k \in 1 .. Len(ex_events) :
        ex_file[ex_events[k].g_use_origin[1]].content[ex_events[k].g_use_origin[2]].id = id}

TrueDiffMs(later, earlier) == (later.sec - earlier.sec) * 1000 + (later.ms - earlier.ms)

\* C2: duration_ms is null iff (result timestamp - invocation timestamp) in
\* milliseconds is <= 0 or > 600000, and otherwise equals that difference.
C2_DurationIsDifference ==
    \A k \in 1 .. Len(ex_events) :
        LET d == TrueDiffMs(ex_events[k].g_instant, ex_events[k].g_use_instant) IN
        /\ (ex_events[k].duration_ms = None) <=> (d <= 0 \/ d > 600000)
        /\ ex_events[k].duration_ms # None => ex_events[k].duration_ms = Some(d)

\* C3: a tool_result whose id is not pending (never invoked, or resolved since
\* its last invocation) emits nothing, so no id has more events than
\* invocations.
C3_ResolvedOnce ==
    /\ \A p \in ExPlaces : \A id \in Ids :
           (IsResultOf(p, id) /\ ~HasOpenUse(p, id)) => EventsAt(p) = {}
    /\ \A id \in Ids :
           Cardinality(EventsOfId(id)) <= Cardinality({q \in ExPlaces : IsUseOf(q, id)})

\* A second result for a1 after a first one resolved it, with no new
\* invocation in between: only the first emitted.
C3_Witness ==
    \E p \in ExPlaces : \E q \in ExPlaces :
        /\ IsResultOf(q, "a1") /\ IsResultOf(p, "a1") /\ PlaceBefore(q, p)
        /\ EventsAt(q) # {}
        /\ ~HasOpenUse(p, "a1")
        /\ EventsAt(p) = {}


(***************************************************************************)
(* parse_file as a state machine                                           *)
(***************************************************************************)
InitParse ==
    /\ mode = "parse"
    /\ PricingIdle /\ ExtractIdle /\ ParseIdle /\ MergeIdle /\ EmitIdle /\ PushIdle

\* One line of the file: one iteration of the for loop.
ParseLine ==
    /\ mode = "parse"
    /\ pf_pc = "reading"
    /\ Len(pf_file) < MaxRecords
    /\ \E rec \in ParseRecords :
         /\ pf_file' = Append(pf_file, rec)
         /\ pf_locals' = ParseStep(pf_locals, rec, Len(pf_file) + 1)
    /\ UNCHANGED <<pf_result, pf_pc, notPf>>

\* End of file: lines 187-199.
ParseReturn ==
    /\ mode = "parse"
    /\ pf_pc = "reading"
    /\ pf_pc' = "returned"
    /\ pf_result' = ParseResult(pf_locals)
    /\ UNCHANGED <<pf_file, pf_locals, notPf>>

\* Reading the file raises OSError or UnicodeDecodeError, at the open or at
\* any later line: lines 183-185 print a warning and return None.
ParseFail ==
    /\ mode = "parse"
    /\ pf_pc = "reading"
    /\ pf_result' = None
    /\ pf_pc' = "failed"
    /\ UNCHANGED <<pf_file, pf_locals, notPf>>

NextParse == ParseFail \/ ParseLine \/ ParseReturn

SpecParse == InitParse /\ [][NextParse]_vars

(***************************************************************************)
(* Claims about parse_file                                                 *)
(***************************************************************************)
PfPlaces ==
    {p \in (1 .. Len(pf_file)) \X (1 .. 2) : p[2] <= Len(pf_file[p[1]].content)}
PfBlock(p) == pf_file[p[1]].content[p[2]]

\* What a Bash command registers for: "commit" when it matches the commit
\* pattern, else "pr" when it matches the PR-creation pattern.
CommandKind(cmd) ==
    IF GitCommitMatch(cmd) THEN "commit" ELSE IF GhPrCreateMatch(cmd) THEN "pr" ELSE "none"

IsBashUseOfKind(q, id, kind) ==
    /\ pf_file[q[1]].shape = "ok"
    /\ pf_file[q[1]].type = "assistant"
    /\ PfBlock(q).type = "tool_use"
    /\ PfBlock(q).name = "Bash"
    /\ PfBlock(q).id = id
    /\ CommandKind(PfBlock(q).input.command) = kind

IsErrorResultOf(r, id) ==
    /\ pf_file[r[1]].shape = "ok"
    /\ PfBlock(r).type = "tool_result"
    /\ PfBlock(r).tool_use_id = id
    /\ PfBlock(r).is_error

CountedOfKind(kind) == {k \in 1 .. Len(pf_locals.g_counted) : pf_locals.g_counted[k].kind = kind}

\* C7: every counted commit (pull request) is a non-error tool_result that
\* comes, in file order, after a Bash tool_use of the same id whose command
\* matches the commit (PR-creation) pattern, with no error result for that id
\* in between: an error result un-registers the id.
C7_CountedOnlyAfterMatchingUse ==
    /\ pf_locals.commits = Cardinality(CountedOfKind("commit"))
    /\ pf_locals.pull_requests = Cardinality(CountedOfKind("pr"))
    /\ \A k \in 1 .. Len(pf_locals.g_counted) :
         LET c == pf_locals.g_counted[k] IN
         /\ PfBlock(c.place).type = "tool_result"
         /\ PfBlock(c.place).tool_use_id = c.id
         /\ ~PfBlock(c.place).is_error
         /\ \E q \in PfPlaces :
              /\ q[1] < c.place[1]
              /\ IsBashUseOfKind(q, c.id, c.kind)
              /\ ~\E r \in PfPlaces :
                     /\ IsErrorResultOf(r, c.id)
                     /\ q[1] < r[1]
                     /\ PlaceBefore(r, c.place)

\* A commit command for a1, then an error result, then a non-error result:
\* nothing is counted.
C7_Witness ==
    /\ Len(pf_file) = 3
    /\ {<<1, 1>>, <<2, 1>>} \subseteq PfPlaces
    /\ IsBashUseOfKind(<<1, 1>>, "a1", "commit")
    /\ IsErrorResultOf(<<2, 1>>, "a1")
    /\ pf_file[3].content = <<ToolResult("a1", FALSE)>>
    /\ pf_file[3].shape = "ok"
    /\ pf_locals.commits = 0
    /\ pf_locals.pending_commits = {}

(***************************************************************************)
(* merge_into_sessions as a state machine                                  *)
(***************************************************************************)
InitMerge ==
    /\ mode = "merge"
    /\ PricingIdle /\ ExtractIdle /\ ParseIdle /\ MergeIdle /\ EmitIdle /\ PushIdle

\* One iteration of the loop of lines 205-226.
MergeFragment ==
    /\ mode = "merge"
    /\ mg_pc = "folding"
    /\ Len(mg_parsed) < MaxFragments
    /\ \E pf \in Fragments :
         LET sid == pf.session_id
             s == IF sid \in DOMAIN mg_sessions THEN mg_sessions[sid] ELSE NewSession(pf)
         IN /\ mg_parsed' = Append(mg_parsed, pf)
            /\ mg_sessions' = DictSet(mg_sessions, sid, FoldFragment(s, pf))
            /\ mg_order' = IF sid \in DOMAIN mg_sessions THEN mg_order
                           ELSE Append(mg_order, sid)
    /\ UNCHANGED <<mg_result, mg_pc, notMg>>

\* Lines 229-260: the canonical sessions, in the order of sessions.values().
MergeFinalize ==
    /\ mode = "merge"
    /\ mg_pc = "folding"
    /\ mg_result' = Some([i \in 1 .. Len(mg_order) |-> FinalizeSession(mg_sessions[mg_order[i]])])
    /\ mg_pc' = "returned"
    /\ UNCHANGED <<mg_parsed, mg_sessions, mg_order, notMg>>

NextMerge == MergeFragment \/ MergeFinalize

SpecMerge == InitMerge /\ [][NextMerge]_vars

(***************************************************************************)
(* Claims about merge_into_sessions                                        *)
(***************************************************************************)
Categories == {"input", "output", "cacheRead", "cacheCreation"}
SessionIds == {mg_parsed[i].session_id : i \in 1 .. Len(mg_parsed)}
ModelsSeen == UNION {DOMAIN mg_parsed[i].tokens : i \in 1 .. Len(mg_parsed)}

\* The count of (model, category) in a fragment or session; 0 when absent.
TokenCount(x, model, cat) ==
    IF model \in DOMAIN x.tokens /\ cat \in DOMAIN x.tokens[model]
    THEN x.tokens[model][cat] ELSE 0

\* The sum, over the fragments of session sid, of val[i].
SumOfSession(sid, val) ==
    SumSeq([i \in 1 .. Len(mg_parsed) |->
               IF mg_parsed[i].session_id = sid THEN val[i] ELSE 0])

MergedOf(sid) == {i \in 1 .. Len(mg_result[1]) : mg_result[1][i].session_id = sid}

\* C4: merge_into_sessions returns exactly one Session per distinct session
\* id, whose token counts (per model and category), lines_added,
\* lines_removed, commits and pull_requests are the sums over the fragments
\* of that id.
C4_MergeIsAdditive ==
    mg_pc = "returned" =>
        /\ \A i \in 1 .. Len(mg_result[1]) : mg_result[1][i].session_id \in SessionIds
        /\ \A sid \in SessionIds :
             /\ Cardinality(MergedOf(sid)) = 1
             /\ \A i \in MergedOf(sid) :
                  LET s == mg_result[1][i] IN
                  /\ \A m \in ModelsSeen : \A cat \in Categories :
                       TokenCount(s, m, cat)
                         = SumOfSession(sid, [j \in 1 .. Len(mg_parsed) |->
                                                 TokenCount(mg_parsed[j], m, cat)])
                  /\ DOMAIN s.tokens \subseteq ModelsSeen
                  /\ s.lines_added
                       = SumOfSession(sid, [j \in 1 .. Len(mg_parsed) |-> mg_parsed[j].lines_added])
                  /\ s.lines_removed
                       = SumOfSession(sid, [j \in 1 .. Len(mg_parsed) |-> mg_parsed[j].lines_removed])
                  /\ s.commits
                       = SumOfSession(sid, [j \in 1 .. Len(mg_parsed) |-> mg_parsed[j].commits])
                  /\ s.pull_requests
                       = SumOfSession(sid, [j \in 1 .. Len(mg_parsed) |-> mg_parsed[j].pull_requests])

\* Two fragments of s1 with tokens and a fragment of s2 were merged.
C4_Witness ==
    /\ mg_pc = "returned"
    /\ SessionIds = {"s1", "s2"}
    /\ Cardinality({i \in 1 .. Len(mg_parsed) : mg_parsed[i].session_id = "s1"}) = 2
    /\ \E i \in MergedOf("s1") : TokenCount(mg_result[1][i], OpusId, "input") = 4

(***************************************************************************)
(* format_openmetrics as a state machine: one step per metric family       *)
(***************************************************************************)
InitEmit ==
    /\ mode = "emit"
    /\ PricingIdle /\ ExtractIdle /\ ParseIdle /\ MergeIdle /\ PushIdle
    /\ em_sessions \in EmitInputs
    /\ em_lines = << >>
    /\ em_pc = "tokens"

\* The loop over the sessions of one family, after its two header lines.
EmitFamily(metric, series, next) ==
    /\ em_lines' = em_lines \o Header(metric) \o Concat(series)
    /\ em_pc' = next
    /\ UNCHANGED <<em_sessions, notEm>>

EmitTokens ==
    /\ mode = "emit" /\ em_pc = "tokens"
    /\ EmitFamily("claude_code_token_usage_tokens_total",
                  [k \in 1 .. Len(em_sessions) |-> TokenSeries(em_sessions[k])], "cost")
EmitCost ==
    /\ mode = "emit" /\ em_pc = "cost"
    /\ EmitFamily("claude_code_cost_usage_USD_total",
                  [k \in 1 .. Len(em_sessions) |-> CostSeries(em_sessions[k])], "session_count")
EmitSessionCount ==
    /\ mode = "emit" /\ em_pc = "session_count"
    /\ EmitFamily("claude_code_session_count_total",
                  [k \in 1 .. Len(em_sessions) |-> SessionCountSeries(em_sessions[k])], "active_time")
EmitActiveTime ==
    /\ mode = "emit" /\ em_pc = "active_time"
    /\ EmitFamily("claude_code_active_time_seconds_total",
                  [k \in 1 .. Len(em_sessions) |-> ActiveTimeSeries(em_sessions[k])], "lines")
EmitLines ==
    /\ mode = "emit" /\ em_pc = "lines"
    /\ EmitFamily("claude_code_lines_of_code_count_total",
                  [k \in 1 .. Len(em_sessions) |-> LinesSeries(em_sessions[k])], "commits")
EmitCommits ==
    /\ mode = "emit" /\ em_pc = "commits"
    /\ EmitFamily("claude_code_commit_count_total",
                  [k \in 1 .. Len(em_sessions) |-> CommitSeries(em_sessions[k])], "pull_requests")
EmitPullRequests ==
    /\ mode = "emit" /\ em_pc = "pull_requests"
    /\ EmitFamily("claude_code_pull_request_count_total",
                  [k \in 1 .. Len(em_sessions) |-> PullRequestSeries(em_sessions[k])], "eof")
\* Lines 435-436.
EmitEof ==
    /\ mode = "emit" /\ em_pc = "eof"
    /\ em_lines' = Append(em_lines, [kind |-> "eof"])
    /\ em_pc' = "returned"
    /\ UNCHANGED <<em_sessions, notEm>>

NextEmit ==
    \/ EmitTokens \/ EmitCost \/ EmitSessionCount \/ EmitActiveTime
    \/ EmitLines \/ EmitCommits \/ EmitPullRequests \/ EmitEof

SpecEmit == InitEmit /\ [][NextEmit]_vars

(***************************************************************************)
(* Claims about format_openmetrics                                         *)
(***************************************************************************)
SampleLines == {k \in 1 .. Len(em_lines) : em_lines[k].kind = "sample"}

\* The <<value, timestamp>> pairs of the samples of one metric of one
\* session, in output order.
RECURSIVE PairsOf(_, _, _)
PairsOf(lines, metric, sid) ==
    IF lines = << >> THEN << >>
    ELSE (IF Head(lines).kind = "sample" /\ Head(lines).metric = metric
             /\ Head(lines).labels.session_id = sid
          THEN <<<<Head(lines).value, Head(lines).ts>>>> ELSE << >>)
         \o PairsOf(Tail(lines), metric, sid)

InitPush ==
    /\ mode = "push"
    /\ PricingIdle /\ ExtractIdle /\ ParseIdle /\ MergeIdle /\ EmitIdle
    /\ pu_events \in PushInputs
    /\ pu_batch_size \in BatchSizes
    /\ pu_dry_run \in BOOLEAN
    /\ pu_batch = 1
    /\ pu_attempt = 0
    /\ pu_total_pushed = 0
    /\ pu_total_errors = 0
    /\ pu_sleeps = << >>
    /\ pu_responses = << >>
    /\ pu_plan = << >>
    /\ pu_last = None
    /\ pu_log = << >>
    /\ pu_pc = "called"

\* Lines 168-180: the events grouped by project, each group sorted and cut
\* into batches.
PushGroup ==
    /\ mode = "push"
    /\ pu_pc = "called"
    /\ pu_plan' = PushPlan(pu_events, pu_batch_size)
    /\ pu_pc' = "pushing"
    /\ UNCHANGED <<pu_events, pu_batch_size, pu_dry_run, pu_batch, pu_attempt,
                   pu_total_pushed, pu_total_errors, pu_sleeps, pu_responses, pu_last,
                   pu_log, notPu>>

CurrentBatch == pu_plan[pu_batch]
InBatch == mode = "push" /\ pu_pc = "pushing" /\ pu_batch <= Len(pu_plan)

\* The batch ends: the next iteration of the loop of line 179.
FinishBatch(ok, responses, sleeps, pushed, errors) ==
    /\ pu_total_pushed' = pushed
    /\ pu_total_errors' = errors
    /\ pu_last' = Some([ok |-> ok, responses |-> responses, sleeps |-> sleeps,
                        size |-> Len(CurrentBatch.events),
                        pushed_before |-> pu_total_pushed, pushed_after |-> pushed,
                        errors_before |-> pu_total_errors, errors_after |-> errors])
    /\ pu_log' = Append(pu_log, [ok |-> ok, dry |-> pu_dry_run,
                                 payload |-> Payload(CurrentBatch)])
    /\ pu_batch' = pu_batch + 1
    /\ pu_attempt' = 0
    /\ pu_sleeps' = << >>
    /\ pu_responses' = << >>
    /\ UNCHANGED <<pu_events, pu_batch_size, pu_dry_run, pu_plan, pu_pc, notPu>>

\* Lines 212-214.
PushDryRun ==
    /\ InBatch
    /\ pu_dry_run
    /\ FinishBatch(TRUE, << >>, << >>,
                   pu_total_pushed + Len(CurrentBatch.events), pu_total_errors)

\* urlopen answers 2xx (lines 241-243), then lines 218-219.
PostOk ==
    /\ InBatch
    /\ ~pu_dry_run
    /\ FinishBatch(TRUE, Append(pu_responses, 200),
                   Append(pu_sleeps, [kind |-> "pace"]),
                   pu_total_pushed + Len(CurrentBatch.events), pu_total_errors)

\* urlopen raises HTTPError 429 before the last attempt (lines 246-254).
Post429Retry ==
    /\ InBatch
    /\ ~pu_dry_run
    /\ pu_attempt < MaxRetries - 1
    /\ pu_responses' = Append(pu_responses, 429)
    /\ pu_sleeps' = Append(pu_sleeps, [kind |-> "backoff", seconds |-> BackoffWait(pu_attempt)])
    /\ pu_attempt' = pu_attempt + 1
    /\ UNCHANGED <<pu_events, pu_batch_size, pu_dry_run, pu_batch, pu_total_pushed,
                   pu_total_errors, pu_plan, pu_last, pu_log, pu_pc, notPu>>

\* urlopen raises another HTTPError, or 429 on the last attempt: line 255
\* raises, lines 220-225 count the batch as failed.
PostHttpError ==
    /\ InBatch
    /\ ~pu_dry_run
    /\ \E code \in HttpErrorCodes :
         /\ code = 429 => pu_attempt = MaxRetries - 1
         /\ FinishBatch(FALSE, Append(pu_responses, code), pu_sleeps,
                        pu_total_pushed, ErrorsAfterFailure(pu_total_errors))

\* urlopen raises something that is no HTTPError (URLError, a timeout): it
\* leaves _post_json and lines 220-225 count the batch as failed.
PostNetworkError ==
    /\ InBatch
    /\ ~pu_dry_run
    /\ FinishBatch(FALSE, Append(pu_responses, 0), pu_sleeps,
                   pu_total_pushed, ErrorsAfterFailure(pu_total_errors))

\* Line 227.
PushReturn ==
    /\ mode = "push"
    /\ pu_pc = "pushing"
    /\ pu_batch > Len(pu_plan)
    /\ pu_pc' = "returned"
    /\ UNCHANGED <<pu_events, pu_batch_size, pu_dry_run, pu_batch, pu_attempt,
                   pu_total_pushed, pu_total_errors, pu_sleeps, pu_responses, pu_plan, pu_last,
                   pu_log, notPu>>

NextPush ==
    \/ PushGroup
    \/ PushDryRun \/ PostOk \/ Post429Retry \/ PostHttpError \/ PostNetworkError
    \/ PushReturn

SpecPush == InitPush /\ [][NextPush]_vars

\* The loop runs on: every call returns or raises.
FairSpecPush == SpecPush /\ WF_vars(NextPush)

(***************************************************************************)
(* Claims about push_to_loki                                               *)
(***************************************************************************)
\* The first k responses of a batch were all 429.
AllThrottled(responses, k) == \A j \in 1 .. k : responses[j] = 429

\* C8 (retry on 429): a batch that got 429 on k consecutive attempts, k below
\* MaxRetries, and then a success has slept 2^0, 2^1, ..., 2^(k-1) seconds in
\* that order before the pacing pause, its events were added to the pushed
\* counter and the error counter was left alone.
C8_RetryOn429 ==
    pu_last # None =>
        LET b == pu_last[1]
            k == Len(b.responses) - 1
        IN  (/\ b.responses # << >>
             /\ k < MaxRetries
             /\ AllThrottled(b.responses, k)
             /\ b.responses[k + 1] = 200)
            => /\ b.sleeps = [j \in 1 .. k |-> [kind |-> "backoff", seconds |-> 2 ^ (j - 1)]]
                                \o << [kind |-> "pace"] >>
               /\ b.pushed_after = b.pushed_before + b.size
               /\ b.errors_after = b.errors_before
               /\ b.ok

\* Scenario D: the first batch got 429 three times and then succeeded.
C8_Witness ==
    /\ pu_last # None
    /\ pu_last[1].responses = <<429, 429, 429, 200>>
    /\ pu_last[1].errors_after = 0
    /\ pu_last[1].size = 2

\* The batch finished last gave up: MaxRetries answers of 429, or an HTTP
\* error other than 429.
GaveUp(b) ==
    /\ b.responses # << >>
    /\ \/ Len(b.responses) = MaxRetries /\ AllThrottled(b.responses, MaxRetries)
       \/ /\ AllThrottled(b.responses, Len(b.responses) - 1)
          /\ b.responses[Len(b.responses)] \in HttpErrorCodes \ {429}

FailureCounted ==
    (pu_last # None /\ GaveUp(pu_last[1]))
    => /\ pu_last[1].errors_after = pu_last[1].errors_before + 1
       /\ pu_last[1].pushed_after = pu_last[1].pushed_before
       /\ ~pu_log[Len(pu_log)].ok

AllAttempted ==
    pu_pc = "returned"
    => \A e \in 1 .. Len(pu_events) :
          \E i \in 1 .. Len(pu_log) :
             \E k \in 1 .. Len(pu_log[i].payload.values) :
                pu_log[i].payload.values[k].g_index = e

\* C9 (partial failure never aborts the run): a batch that exhausts the
\* retries on 429, or gets another HTTP error, adds exactly one to the error
\* counter and nothing to the pushed counter; when push_to_loki returns every
\* event of its argument was in a batch that was attempted; and push_to_loki
\* returns whatever the server answers.
C9_PartialFailureNeverAborts ==
    /\ [](FailureCounted /\ AllAttempted)
    /\ <>(pu_pc = "returned")

\* A run that returned after a batch that gave up on 429 and a later batch
\* that was pushed.
C9_Witness ==
    /\ pu_pc = "returned"
    /\ Len(pu_log) = 2
    /\ ~pu_log[1].ok
    /\ pu_log[2].ok
    /\ pu_last[1].errors_before = 1
    /\ pu_total_errors = 1
    /\ pu_total_pushed = Len(pu_log[2].payload.values)

\* a < b for the numbers two strings of digits without leading zeros stand for.
NumLess(a, b) == Len(a) < Len(b) \/ (Len(a) = Len(b) /\ StrLess(a, b))

\* C10: of two events of one project, the one pushed later (later in its
\* batch, or in a later batch) never has the smaller nanosecond timestamp.
C10_AscendingNumeric ==
    \A i \in 1 .. Len(pu_log) : \A j \in i .. Len(pu_log) :
        pu_log[i].payload.stream.project = pu_log[j].payload.stream.project
        => \A a \in 1 .. Len(pu_log[i].payload.values) :
             \A b \in 1 .. Len(pu_log[j].payload.values) :
                (i < j \/ a < b)
                => ~NumLess(pu_log[j].payload.values[b].timestamp_ns,
                            pu_log[i].payload.values[a].timestamp_ns)

(***************************************************************************)
(* Further claims about format_openmetrics                                 *)
(***************************************************************************)
\* C11 (sparse emission): no emitted series is constant zero, that is, the
\* last sample of every emitted series is greater than zero.
C11_NoConstantZeroSeries ==
    \A k \in SampleLines :
        em_lines[k].g_i = em_lines[k].g_n => em_lines[k].value > 0

\* Two sample lines belong to one series.
SameSeries(j, k) ==
    /\ em_lines[j].metric = em_lines[k].metric
    /\ em_lines[j].labels = em_lines[k].labels

\* The session a sample line is about.
SessionOfLine(k) ==
    em_sessions[CHOOSE i \in 1 .. Len(em_sessions) :
                    em_sessions[i].session_id = em_lines[k].labels.session_id]

\* C12: within a series the values never decrease from one sample to a later
\* one, the first sample of the series is at the start of its session and
\* the last one (once the family is written) at its end.
C12_MonotoneCoveringSeries ==
    \A k \in SampleLines :
        /\ \A j \in SampleLines :
              (j < k /\ SameSeries(j, k)) => em_lines[j].value <= em_lines[k].value
        /\ (\A j \in SampleLines : SameSeries(j, k) => j >= k)
              => em_lines[k].ts = SessionOfLine(k).start_ts[1]
        /\ (\A j \in SampleLines : SameSeries(j, k) => j <= k)
              => em_lines[k].ts = SessionOfLine(k).end_ts[1]

\* A commit series of four samples that rises from the start of its session
\* to its end.
C12_Witness ==
    /\ em_pc = "returned"
    /\ Len(PairsOf(em_lines, "claude_code_commit_count_total", "s1")) = 4
    /\ PairsOf(em_lines, "claude_code_commit_count_total", "s1")[1][1]
         < PairsOf(em_lines, "claude_code_commit_count_total", "s1")[4][1]
    /\ PairsOf(em_lines, "claude_code_commit_count_total", "s1")[4][2]
         = em_sessions[1].end_ts[1]

(***************************************************************************)
(* match_pricing as a state machine: one call                              *)
(***************************************************************************)
InitPricing ==
    /\ mode = "pricing"
    /\ ExtractIdle /\ ParseIdle /\ MergeIdle /\ EmitIdle /\ PushIdle
    /\ mp_model_id \in ModelIds
    /\ mp_result = None
    /\ mp_pc = "called"

\* Lines 40-49.
PricingCall ==
    /\ mode = "pricing"
    /\ mp_pc = "called"
    /\ mp_result' = Some(match_pricing(mp_model_id))
    /\ mp_pc' = "returned"
    /\ UNCHANGED <<mp_model_id, notMp>>

NextPricing == PricingCall

SpecPricing == InitPricing /\ [][NextPricing]_vars

(***************************************************************************)
(* Claims about match_pricing                                              *)
(***************************************************************************)
\* Two characters are the same letter, whatever their case.
SameLetter(c, d) ==
    \/ c = d
    \/ \E i \in 1 .. Len(UpperLetters) : {c, d} = {UpperLetters[i], LowerLetters[i]}

\* The id has the word somewhere in it, in any mix of cases.
HasWord(id, word) ==
    \E i \in 1 .. Len(id) :
        /\ i + Len(word) - 1 <= Len(id)
        /\ \A j \in 1 .. Len(word) : SameLetter(id[i + j - 1], word[j])

\* C13: an id with "opus" in it (in any case) gets the opus tier even when it
\* also has "haiku"; otherwise one with "haiku" gets the haiku tier; every
\* other id, the absent one included, gets the sonnet tier.
C13_PricingPriority ==
    mp_pc = "returned" =>
        LET opus == HasWord(mp_model_id, <<"o", "p", "u", "s">>)
            haiku == HasWord(mp_model_id, <<"h", "a", "i", "k", "u">>)
        IN  /\ opus => mp_result = Some(MODEL_PRICING.opus)
            /\ (~opus /\ haiku) => mp_result = Some(MODEL_PRICING.haiku)
            /\ (~opus /\ ~haiku) => mp_result = Some(MODEL_PRICING.sonnet)

\* An id with "hAiKu" before "OPUS" was priced as opus.
C13_Witness ==
    /\ mp_pc = "returned"
    /\ mp_model_id = <<"h", "A", "i", "K", "u", "-", "4", "O", "P", "U", "S">>
    /\ mp_result = Some(MODEL_PRICING.opus)

(***************************************************************************)
(* Further claims about merge_into_sessions                                *)
(***************************************************************************)
\* The rate of a category for a model id: opus before haiku before sonnet.
RateOf(model, cat) ==
    IF HasWord(model, <<"o", "p", "u", "s">>) THEN MODEL_PRICING.opus[cat]
    ELSE IF HasWord(model, <<"h", "a", "i", "k", "u">>) THEN MODEL_PRICING.haiku[cat]
    ELSE MODEL_PRICING.sonnet[cat]

\* The models of the fragments of session sid.
ModelsOfSession(sid) ==
    UNION {DOMAIN mg_parsed[i].tokens :
              i \in {j \in 1 .. Len(mg_parsed) : mg_parsed[j].session_id = sid}}

\* The tokens of (model, category) in all the fragments of session sid.
MergedCount(sid, model, cat) ==
    SumOfSession(sid, [i \in 1 .. Len(mg_parsed) |-> TokenCount(mg_parsed[i], model, cat)])

\* C14: the cost of every model of every canonical session is the sum, over
\* the four categories, of the merged count times the rate of the matched
\* tier (in units of 10^-8 USD: the rate is in hundredths of USD per million).
C14_CostIsSumOfCategories ==
    mg_pc = "returned" =>
        \A i \in 1 .. Len(mg_result[1]) :
            LET s == mg_result[1][i] IN
            /\ DOMAIN s.cost_by_model = ModelsOfSession(s.session_id)
            /\ \A m \in DOMAIN s.cost_by_model :
                  s.cost_by_model[m] =
                      MergedCount(s.session_id, m, "input") * RateOf(m, "input")
                      + MergedCount(s.session_id, m, "output") * RateOf(m, "output")
                      + MergedCount(s.session_id, m, "cacheCreation") * RateOf(m, "cacheCreation")
                      + MergedCount(s.session_id, m, "cacheRead") * RateOf(m, "cacheRead")

\* Scenario B: 1000 input and 500 output tokens on an opus id cost 0.0525 USD.
C14_Witness ==
    /\ mg_pc = "returned"
    /\ Len(mg_parsed) = 1
    /\ mg_parsed[1].tokens = ScenarioBTokens
    /\ mg_result[1][1].cost_by_model[OpusId] = 5250000

(***************************************************************************)
(* Claims about a file that cannot be read to its end                      *)
(***************************************************************************)
\* C15: a file whose reading fails, at whatever line, contributes no event:
\* extract_tool_events returns the empty list for it.
C15_FailedFileGivesNoEvents ==
    ex_pc = "failed" => ex_events = << >>

(***************************************************************************)
(* The two parsers side by side: extract_tool_events or parse_file reads   *)
(* one file                                                                *)
(***************************************************************************)
InitParsers == InitExtract \/ InitParse
NextParsers == NextExtract \/ NextParse
SpecParsers == InitParsers /\ [][NextParsers]_vars

(***************************************************************************)
(* Claims about records without a timestamp                                *)
(***************************************************************************)
\* A JSON record whose timestamp is missing or is no ISO-8601 instant.
Untimed(rec) ==
    /\ rec.shape \notin {"blank", "bad_json"}
    /\ parse_timestamp(rec.timestamp) = None

\* This step of extract_tool_events reads such a record.
ExtractReadsUntimed ==
    /\ mode = "extract"
    /\ Len(ex_file') = Len(ex_file) + 1
    /\ Untimed(ex_file'[Len(ex_file')])

\* This step of parse_file reads such a record.
ParseReadsUntimed ==
    /\ mode = "parse"
    /\ Len(pf_file') = Len(pf_file) + 1
    /\ Untimed(pf_file'[Len(pf_file')])

TimestampsOfSession(sid) ==
    UNION {Range(mg_parsed[i].timestamps) :
              i \in {j \in 1 .. Len(mg_parsed) : mg_parsed[j].session_id = sid}}

\* d = a - b for floats a >= b on the grid of 2^-22 s.
IsDifference(d, a, b) ==
    /\ d.frac \in 0 .. (GridPerSecond - 1)
    /\ (d.sec - (a.sec - b.sec)) * GridPerSecond = (a.frac - b.frac) - d.frac

\* C17: a canonical session with timestamps starts at the least and ends at
\* the greatest timestamp of all its fragments together, and its
\* active_seconds is end - start.
C17_RangeOverAllFragments ==
    mg_pc = "returned" =>
        \A i \in 1 .. Len(mg_result[1]) :
            LET s == mg_result[1][i]
                all == TimestampsOfSession(s.session_id)
            IN all # {} =>
                 /\ s.start_ts # None /\ s.end_ts # None
                 /\ s.start_ts[1] \in all /\ s.end_ts[1] \in all
                 /\ \A t \in all : FloatLeq(s.start_ts[1], t) /\ FloatLeq(t, s.end_ts[1])
                 /\ IsDifference(s.active_seconds, s.end_ts[1], s.start_ts[1])

\* A session whose start comes from its second fragment and whose end comes
\* from its first.
C17_Witness ==
    /\ mg_pc = "returned"
    /\ Len(mg_parsed) = 2
    /\ mg_parsed[1].session_id = mg_parsed[2].session_id
    /\ mg_parsed[1].timestamps = <<TimestampFloat(Iso(BaseSec + 700, 0))>>
    /\ mg_parsed[2].timestamps = <<TimestampFloat(Iso(BaseSec + 601, 1)),
                                   TimestampFloat(Iso(BaseSec, 0))>>
    /\ mg_result[1][1].start_ts = Some(TimestampFloat(Iso(BaseSec, 0)))
    /\ mg_result[1][1].end_ts = Some(TimestampFloat(Iso(BaseSec + 700, 0)))
    /\ mg_result[1][1].active_seconds = [sec |-> 700, frac |-> 0]

(***************************************************************************)
(* Claims about the order of the fragments                                 *)
(***************************************************************************)
\* The canonical sessions merge_into_sessions returned, by session id.
ResultBySessionId ==
    [sid \in {mg_result[1][i].session_id : i \in 1 .. Len(mg_result[1])} |->
        mg_result[1][CHOOSE i \in 1 .. Len(mg_result[1]) : mg_result[1][i].session_id = sid]]

\* C18: whatever the order in which the same fragments are given, every
\* session id gets the same canonical session, in every field.
C18_OrderIndependent ==
    (mg_pc = "returned" /\ mg_parsed # << >>) =>
        \A p \in Permutations(1 .. Len(mg_parsed)) :
            CanonicalSessions([i \in 1 .. Len(mg_parsed) |-> mg_parsed[p[i]]])
                = ResultBySessionId

(***************************************************************************)
(* Claims about an id that is reissued                                     *)
(***************************************************************************)
\* The last tool_use of id before p.
MostRecentUse(p, id) ==
    CHOOSE q \in ExPlaces :
        /\ IsUseOf(q, id) /\ PlaceBefore(q, p)
        /\ \A r \in ExPlaces :
              (IsUseOf(r, id) /\ PlaceBefore(r, p)) => (r = q \/ PlaceBefore(r, q))

\* id was invoked at least twice before p since it was last resolved.
Reissued(p, id) ==
    \E q \in ExPlaces : \E r \in ExPlaces :
        /\ IsUseOf(q, id) /\ IsUseOf(r, id)
        /\ PlaceBefore(q, r) /\ PlaceBefore(r, p)
        /\ ~\E x \in ExPlaces : IsResultOf(x, id) /\ PlaceBefore(q, x) /\ PlaceBefore(x, p)

\* The parameters recorded for a tool_use block: the command of a Bash call.
ParametersOf(block) ==
    IF block.name = "Bash" THEN Some([bash_command |-> block.input.command]) ELSE None

\* The duration recorded for a difference of d milliseconds: none when d is
\* not in 1 .. 600000, else d or, by the truncation of the float, d - 1.
DurationsFor(d) ==
    IF d <= 0 \/ d > 600000 THEN {None} ELSE {Some(d), Some(d - 1)}

InitDryRun ==
    /\ mode = "push"
    /\ PricingIdle /\ ExtractIdle /\ ParseIdle /\ MergeIdle /\ EmitIdle
    /\ pu_events \in DryInputs
    /\ pu_batch_size \in DryBatchSizes
    /\ pu_dry_run = TRUE
    /\ pu_batch = 1
    /\ pu_attempt = 0
    /\ pu_total_pushed = 0
    /\ pu_total_errors = 0
    /\ pu_sleeps = << >>
    /\ pu_responses = << >>
    /\ pu_plan = << >>
    /\ pu_last = None
    /\ pu_log = << >>
    /\ pu_pc = "called"

NextDryRun == PushGroup \/ PushDryRun \/ PushReturn

SpecDryRun == InitDryRun /\ [][NextDryRun]_vars

(***************************************************************************)
(* Claims about the batches                                                *)
(***************************************************************************)
\* Where the event at place e of the argument is in the batches.
PlacesInPlan(e) ==
    {ik \in (1 .. Len(pu_plan)) \X (1 .. Len(pu_events)) :
        /\ ik[2] <= Len(pu_plan[ik[1]].events)
        /\ pu_plan[ik[1]].events[ik[2]].g_index = e}

\* C20: every event of the argument is in exactly one batch, a batch holds
\* events of one project only, between 1 and batch_size of them, and of two
\* batches of one project the earlier holds exactly batch_size; a dry run
\* that returned has counted every event once.
C20_BatchesPartition ==
    pu_pc # "called" =>
        /\ \A e \in 1 .. Len(pu_events) :
              /\ Cardinality(PlacesInPlan(e)) = 1
              /\ \A ik \in PlacesInPlan(e) : pu_plan[ik[1]].events[ik[2]] = pu_events[e]
        /\ \A i \in 1 .. Len(pu_plan) :
              /\ Len(pu_plan[i].events) \in 1 .. pu_batch_size
              /\ \A k \in 1 .. Len(pu_plan[i].events) :
                    /\ pu_plan[i].events[k].project = pu_plan[i].project
                    /\ pu_plan[i].events[k].g_index \in 1 .. Len(pu_events)
              /\ \A j \in (i + 1) .. Len(pu_plan) :
                    pu_plan[j].project = pu_plan[i].project
                    => Len(pu_plan[i].events) = pu_batch_size
        /\ pu_pc = "returned" => pu_total_pushed = Len(pu_events)

\* Three events of project p1 cut into a batch of two and a batch of one.
C20_Witness ==
    /\ pu_pc = "returned"
    /\ pu_batch_size = 2
    /\ Len(pu_events) = 3
    /\ Len(pu_plan) = 2
    /\ pu_plan[1].project = "p1" /\ pu_plan[2].project = "p1"
    /\ Len(pu_plan[1].events) = 2
    /\ Len(pu_plan[2].events) = 1
    /\ pu_total_pushed = 3

(***************************************************************************)
(* Claims about the correlation ids of parse_file                          *)
(***************************************************************************)
\* A Bash tool_use of id whose command registers for kind is read after the
\* result at place p and before the result at place r.  Within a line the
\* first loop handles every tool_result before the second loop handles any
\* tool_use, so a use of the line of p comes after p and a use of the line
\* of r comes after r.
UseBetween(p, r, id, kind) ==
    \E q \in PfPlaces :
        /\ IsBashUseOfKind(q, id, kind)
        /\ p[1] <= q[1]
        /\ q[1] < r[1]

\* C21: an id is counted at most once per registering tool_use: when two
\* results of one id have both been counted (as a commit or as a pull
\* request), a Bash tool_use of that id matching the pattern of the second
\* count lies between them.
C21_IdResolvesOnce ==
    \A j \in 1 .. Len(pf_locals.g_counted) :
        \A k \in (j + 1) .. Len(pf_locals.g_counted) :
            LET a == pf_locals.g_counted[j]
                b == pf_locals.g_counted[k]
            IN  a.id = b.id => UseBetween(a.place, b.place, b.id, b.kind)

(***************************************************************************)
(* Claims about the sample timestamps of format_openmetrics                *)
(***************************************************************************)
\* C22: within a series the timestamps strictly increase with the sample
\* index: of two samples of one series the later one has the greater
\* timestamp, so no series has two samples with the same timestamp.
C22_TimestampsStrictlyIncrease ==
    \A j \in SampleLines :
        \A k \in SampleLines :
            (j < k /\ SameSeries(j, k)) => em_lines[j].ts < em_lines[k].ts

====
